---- MODULE Spec2Model ----
(***************************************************************************)
(* A model of the WebPixels MCP server (class WebPixelsServer): the        *)
(* catalog, the three indexes built by indexData, the five tool handlers   *)
(* behind CallToolRequestSchema and the resource handlers behind           *)
(* ListResourcesRequestSchema / ReadResourceRequestSchema.                 *)
(*                                                                         *)
(* Strings are sequences of one-character strings, so that toLowerCase,    *)
(* includes, split and join are computed and not assumed.  A literal block *)
(* of text of the source (an error-message prefix, the document skeleton)  *)
(* is a single multi-character element.  A JavaScript object is a function *)
(* whose DOMAIN holds the keys that are present: an absent key is the      *)
(* undefined of the source.                                                *)
(***************************************************************************)
EXTENDS Integers, Sequences, FiniteSets, TLC

VARIABLES catalog, componentsBySlug, componentsById, categoriesBySlug,
          request, response

vars == <<catalog, componentsBySlug, componentsById, categoriesBySlug,
          request, response>>

store == <<catalog, componentsBySlug, componentsById, categoriesBySlug>>

(***************************************************************************)
(* Bounds of the model.                                                    *)
(***************************************************************************)
\* components of a catalog drawn from ComponentPool
MaxCore == 2
\* generated components appended to a large catalog
MaxFiller == 27
\* references in one assemble_page request
MaxRefs == 2

(***************************************************************************)
(* Strings.                                                                *)
(***************************************************************************)
Upper == <<"A","B","C","D","E","F","G","H","I","J","K","L","M",
           "N","O","P","Q","R","S","T","U","V","W","X","Y","Z">>
Lower == <<"a","b","c","d","e","f","g","h","i","j","k","l","m",
           "n","o","p","q","r","s","t","u","v","w","x","y","z">>

\* U+0131, the small dotless i: a lower-case letter that toLowerCase leaves
\* as it is and whose capital is the ASCII I
DotlessI == "U+0131"

\* a text that does not change the case of its letters
toLowerCase_caseKept(s) == s

\* String.prototype.toLowerCase
toLowerCase(s) ==
    [i \in 1..Len(s) |->
        IF \E k \in 1..26 : Upper[k] = s[i]
        THEN Lower[CHOOSE k \in 1..26 : Upper[k] = s[i]]
        ELSE s[i]]

\* String.prototype.includes
includes(s, q) ==
    \E i \in 1..(Len(s) - Len(q) + 1) : SubSeq(s, i, i + Len(q) - 1) = q

\* Array.prototype.join
RECURSIVE join(_, _)
join(parts, sep) ==
    IF Len(parts) = 0 THEN <<>>
    ELSE IF Len(parts) = 1 THEN parts[1]
    ELSE parts[1] \o sep \o join(Tail(parts), sep)

\* Array.prototype.filter is SelectSeq; Array.prototype.map is written out as
\* [i \in 1..Len(seq) |-> f(seq[i])]

\* Array.prototype.slice(0, n), n >= 0
slice(seq, n) == SubSeq(seq, 1, IF n < Len(seq) THEN n ELSE Len(seq))

\* the first index at which q starts in s, 0 when there is none
indexOf(s, q) ==
    IF includes(s, q)
    THEN CHOOSE i \in 1..(Len(s) - Len(q) + 1) :
            /\ SubSeq(s, i, i + Len(q) - 1) = q
            /\ \A j \in 1..(i - 1) : SubSeq(s, j, j + Len(q) - 1) # q
    ELSE 0

\* String.prototype.split with a non-empty separator
RECURSIVE split(_, _)
split(s, sep) ==
    IF indexOf(s, sep) = 0 THEN <<s>>
    ELSE <<SubSeq(s, 1, indexOf(s, sep) - 1)>>
         \o split(SubSeq(s, indexOf(s, sep) + Len(sep), Len(s)), sep)

\* a JavaScript object: the value of key k, the keys present
Has(obj, k) == k \in DOMAIN obj
NoArgs == [k \in {} |-> TRUE]

\* truthiness of a string and of a number
TruthyStr(obj, k) == Has(obj, k) /\ obj[k] # <<>>
TruthyNum(obj, k) == Has(obj, k) /\ obj[k] # 0

\* the object with the keys of obj that are in keys
Pick(obj, keys) == [k \in (DOMAIN obj) \cap keys |-> obj[k]]

\* JSON.stringify: the text of a value, kept as the value it is the text of
\* (a key whose value is undefined is not in the object, as in the text)
JSON_stringify(v) == [json |-> v]

Digit == <<"0","1","2","3","4","5","6","7","8","9">>

(***************************************************************************)
(* Literals used by the catalogs and the requests.                         *)
(***************************************************************************)
u1 == <<"u","1">>
u2 == <<"u","2">>
u3 == <<"u","3">>
h1 == <<"h","1">>
p1 == <<"p","1">>
d1 == <<"d","1">>
zz == <<"z","z">>
sec == <<"s","e","c">>
frm == <<"f","r","m">>
fil == <<"f","i","l">>
hero == <<"h","e","r","o">>
pri == <<"p","r","i">>
NL == <<"\n">>

\* types.ts ComponentType
ComponentType == {"component", "section", "card", "screen", "layout",
                  "page", "form", "chart", "partial"}

\* types.ts ContentHints
Hints(images, scheme) ==
    [has_images |-> images, has_icons |-> FALSE, has_buttons |-> TRUE,
     has_form |-> FALSE, has_carousel |-> FALSE, has_video |-> FALSE,
     color_scheme |-> scheme, layout_type |-> "contained"]

\* types.ts ComponentData
Component(id, slug, name, type, category, subcategory, description, tags, html, dependencies, used_by, is_free, is_published, is_featured) ==
    [id |-> id, slug |-> slug, name |-> name, type |-> type,
     category |-> category, subcategory |-> subcategory,
     description |-> description, tags |-> tags, keywords |-> <<>>,
     use_cases |-> <<>>, includes |-> <<>>,
     content_hints |-> Hints(is_free, "light"),
     html |-> html, dependencies |-> dependencies, used_by |-> used_by,
     similar_to |-> <<>>, is_free |-> is_free,
     is_published |-> is_published, is_featured |-> is_featured,
     is_new |-> FALSE, created_at |-> <<"t","0">>, updated_at |-> <<"t","1">>]

\* the fields of types.ts ComponentData
ComponentFields ==
    {"id", "slug", "name", "type", "category", "subcategory", "description",
     "tags", "keywords", "use_cases", "includes", "content_hints", "html",
     "dependencies", "used_by", "similar_to", "is_free", "is_published",
     "is_featured", "is_new", "created_at", "updated_at"}

\* the example of the README and four components around it: CompPlan depends on
\* h1, on a slug nobody has and on an id; CompDraft is unpublished with empty html;
\* CompCopy repeats CompHero's id and has CompPlan's id as its slug.
CompHero == Component(u1, h1, <<"H","e","r","o">>, "section", sec, hero,
                <<"T","o","p">>, << <<"B","i","g">> >>, <<"<","H",">">>,
                <<>>, <<p1>>, TRUE, TRUE, TRUE)
CompPlan == Component(u2, p1, <<"P","l","a","n">>, "section", sec, pri,
                <<>>, << <<"h","e","r","o","e","s">> >>, <<"<","P",">">>,
                <<h1, zz, u1>>, <<>>, FALSE, TRUE, FALSE)
CompDraft == Component(u3, d1, <<"D","r","a","f","t">>, "form", sec, hero,
                <<"h","e","r","o">>, <<>>, <<>>,
                <<d1, h1>>, <<zz, p1>>, TRUE, FALSE, FALSE)
CompCopy == Component(u1, u2, <<"C","o","p","y">>, "card", frm, sec,
                <<>>, <<>>, <<"<","C",">">>,
                <<u2>>, <<h1>>, TRUE, TRUE, FALSE)

ComponentPool == {CompHero, CompPlan, CompDraft, CompCopy}

\* a component with keywords and use cases: a section that is not free and
\* has hero as its subcategory only
k1 == <<"k","1">>
u4 == <<"u","4">>
CompKeys ==
    [Component(u4, k1, <<"K","e","y">>, "section", fil, hero, <<>>, <<>>,
               <<"<","K",">">>, <<>>, <<>>, FALSE, TRUE, TRUE)
        EXCEPT !.keywords = << <<"H","E","R","O">> >>,
               !.use_cases = << <<"N","a","v">>, <<"B","a","r">> >>]

\* the i-th generated component: unique id and slug, four in five published,
\* every second one free
Filler(i) ==
    Component(<<"f", Digit[(i \div 10) + 1], Digit[(i % 10) + 1]>>,
              <<"g", Digit[(i \div 10) + 1], Digit[(i % 10) + 1]>>,
              <<"F">>, "card",
              IF i % 3 = 0 THEN sec ELSE fil,
              IF i % 4 = 0 THEN hero ELSE fil,
              <<>>, <<>>, <<"<", Digit[(i % 10) + 1], ">">>,
              <<>>, <<>>, i % 2 = 0, i % 5 # 3, i % 7 = 0)

\* types.ts Category; icon is optional
CatSections == [slug |-> sec, name |-> <<"S">>, icon |-> <<"i">>,
                is_published |-> TRUE,
                items |-> << [name |-> <<"H">>, slug |-> hero],
                             [name |-> <<"P">>, slug |-> pri,
                              description |-> <<"d">>] >>]
CatForms    == [slug |-> frm, name |-> <<"F">>, is_published |-> FALSE,
                items |-> <<>>]
CatEmpty    == [slug |-> zz, name |-> <<"Z">>, description |-> <<"e">>,
                is_published |-> TRUE, items |-> <<>>]
CatSecAgain == [slug |-> sec, name |-> <<"S","2">>, is_published |-> TRUE,
                items |-> <<>>]

CategoryLists == { <<CatSections, CatForms, CatEmpty>>,
                   <<CatForms, CatSections, CatSecAgain>> }

SeqsUpTo(S, n) == UNION {[1..k -> S] : k \in 0..n}

\* types.ts ComponentCatalog
Catalog(categories, components) ==
    [version |-> <<"1">>, generated_at |-> <<"t">>,
     categories |-> categories, components |-> components]

\* the small catalogs, and the large ones: fewer components of the pool,
\* followed by the generated ones
Catalogs ==
    { Catalog(cats, core) :
        cats \in CategoryLists, core \in SeqsUpTo(ComponentPool, MaxCore) }
    \cup
    { Catalog(<<CatSections, CatForms, CatEmpty>>,
              core \o [i \in 1..MaxFiller |-> Filler(i)]) :
        core \in SeqsUpTo(ComponentPool, MaxCore - 1) }
    \cup
    { Catalog(<<CatSections, CatForms, CatEmpty>>, core \o <<CompKeys>>) :
        core \in SeqsUpTo(ComponentPool, MaxCore - 1) }

(***************************************************************************)
(* indexData: a Map is a function on the keys set so far, a later set of   *)
(* the same key replaces the earlier one.                                  *)
(***************************************************************************)
MapSet(m, k, v) == [x \in (DOMAIN m) \cup {k} |-> IF x = k THEN v ELSE m[x]]
EmptyMap == [x \in {} |-> x]

\* the loop over catalog.components: both maps are set for each component
RECURSIVE indexComponents(_, _)
indexComponents(maps, components) ==
    IF components = <<>> THEN maps
    ELSE indexComponents(
            [bySlug |-> MapSet(maps.bySlug, Head(components).slug, Head(components)),
             byId   |-> MapSet(maps.byId, Head(components).id, Head(components))],
            Tail(components))

\* the loop over catalog.categories
RECURSIVE indexCategories(_, _)
indexCategories(m, categories) ==
    IF categories = <<>> THEN m
    ELSE indexCategories(MapSet(m, Head(categories).slug, Head(categories)),
                         Tail(categories))

indexData(cat) ==
    LET maps == indexComponents([bySlug |-> EmptyMap, byId |-> EmptyMap],
                                cat.components)
    IN  [componentsBySlug |-> maps.bySlug,
         componentsById |-> maps.byId,
         categoriesBySlug |-> indexCategories(EmptyMap, cat.categories)]

\* the constructor: load the catalog, index it
Init ==
    /\ catalog \in Catalogs
    /\ LET built == indexData(catalog)
       IN  /\ componentsBySlug = built.componentsBySlug
           /\ componentsById = built.componentsById
           /\ categoriesBySlug = built.categoriesBySlug
    /\ request = [kind |-> "none"]
    /\ response = [outcome |-> "none"]

(***************************************************************************)
(* The store's lookups and the query engine.                               *)
(***************************************************************************)
Undefined == [undefined |-> TRUE]

\* Map.prototype.get
MapGet(m, k) == IF k \in DOMAIN m THEN m[k] ELSE Undefined

\* a lookup that forgets the id index
getComponent_slugOnly(idOrSlug) == MapGet(componentsBySlug, idOrSlug)

\* componentsById.get(idOrSlug) || componentsBySlug.get(idOrSlug)
getComponent(idOrSlug) ==
    IF MapGet(componentsById, idOrSlug) # Undefined
    THEN MapGet(componentsById, idOrSlug)
    ELSE MapGet(componentsBySlug, idOrSlug)

\* the text a query is searched in
searchText(c) ==
    toLowerCase(join(<<c.name, c.slug,
                       IF c.description # <<>> THEN c.description ELSE <<>>,
                       c.category, c.subcategory>>
                     \o c.tags \o c.keywords \o c.use_cases, <<" ">>))

DefaultLimit == 20

\* the is_free step written against the wrong flag
freeFilter_featured(results, filters) ==
    IF Has(filters, "is_free")
    THEN SelectSeq(results, LAMBDA c : c.is_featured = filters.is_free)
    ELSE results

\* if (filters.is_free !== undefined) results = results.filter(...)
freeFilter(results, filters) ==
    IF Has(filters, "is_free")
    THEN SelectSeq(results, LAMBDA c : c.is_free = filters.is_free)
    ELSE results

\* a category filter that looks at the category field alone
searchComponents_noSubcategory(filters) ==
    LET published == SelectSeq(catalog.components, LAMBDA c : c.is_published)
        byType ==
            IF Has(filters, "type") /\ filters.type # ""
            THEN SelectSeq(published, LAMBDA c : c.type = filters.type)
            ELSE published
        byCategory ==
            IF TruthyStr(filters, "category")
            THEN SelectSeq(byType, LAMBDA c : c.category = filters.category)
            ELSE byType
        byFree == freeFilter(byCategory, filters)
        byFeatured ==
            IF Has(filters, "is_featured")
            THEN SelectSeq(byFree, LAMBDA c : c.is_featured = filters.is_featured)
            ELSE byFree
        byQuery ==
            IF TruthyStr(filters, "query")
            THEN SelectSeq(byFeatured,
                        LAMBDA c : includes(searchText(c), toLowerCase(filters.query)))
            ELSE byFeatured
    IN  IF TruthyNum(filters, "limit") /\ filters.limit > 0
        THEN slice(byQuery, filters.limit)
        ELSE byQuery

\* searchComponents(filters: SearchFilters): ComponentData[]
searchComponents(filters) ==
    LET published == SelectSeq(catalog.components, LAMBDA c : c.is_published)
        byType ==
            IF Has(filters, "type") /\ filters.type # ""
            THEN SelectSeq(published, LAMBDA c : c.type = filters.type)
            ELSE published
        byCategory ==
            IF TruthyStr(filters, "category")
            THEN SelectSeq(byType, LAMBDA c : \/ c.category = filters.category
                                          \/ c.subcategory = filters.category)
            ELSE byType
        byFree == freeFilter(byCategory, filters)
        byFeatured ==
            IF Has(filters, "is_featured")
            THEN SelectSeq(byFree, LAMBDA c : c.is_featured = filters.is_featured)
            ELSE byFree
        byQuery ==
            IF TruthyStr(filters, "query")
            THEN SelectSeq(byFeatured,
                        LAMBDA c : includes(searchText(c), toLowerCase(filters.query)))
            ELSE byFeatured
    IN  IF TruthyNum(filters, "limit") /\ filters.limit > 0
        THEN slice(byQuery, filters.limit)
        ELSE byQuery

SummaryFields ==
    {"id", "name", "slug", "type", "category", "subcategory", "description",
     "is_free", "is_featured", "tags"}

formatComponentSummary(component) == Pick(component, SummaryFields)

\* the callback c => this.formatComponentSummary(c) over an array
summaries(components) ==
    [i \in 1..Len(components) |-> formatComponentSummary(components[i])]

\* a tool result: { content: [{ type: 'text', text }], isError? }
TextResult(text) == [content |-> text]
ErrorResult(text) == [content |-> text, isError |-> TRUE]

\* args.limit passed on as it is, without the default
limitFilter_noDefault(args) == Pick(args, {"limit"})

\* limit: (args.limit as number) || 20
limitFilter(args) ==
    [limit |-> IF TruthyNum(args, "limit") THEN args.limit ELSE DefaultLimit]

\* the filters handleSearchComponents builds: is_featured is not among them
handleSearchComponents(args) ==
    LET filters ==
            Pick(args, {"query", "type", "category", "is_free"}) @@ limitFilter(args)
        results == searchComponents(filters)
    IN  TextResult(JSON_stringify(
            [count |-> Len(results),
             components |-> summaries(results)]))

NotFound(id) == [error |-> <<"Component not found: ">> \o id]

\* a record that leaves the markup out
FullFields_noHtml ==
    {"id", "name", "slug", "type", "category", "subcategory", "description",
     "is_free", "is_featured", "tags", "keywords", "use_cases", "includes",
     "content_hints", "dependencies", "used_by"}

\* the fields handleGetComponent and handleComponentResource write out
FullFields ==
    {"id", "name", "slug", "type", "category", "subcategory", "description",
     "is_free", "is_featured", "tags", "keywords", "use_cases", "includes",
     "content_hints", "dependencies", "used_by", "html"}

handleGetComponent(args) ==
    LET component == getComponent(args.id)
    IN  IF component = Undefined
        THEN ErrorResult(JSON_stringify(NotFound(args.id)))
        ELSE TextResult(JSON_stringify(Pick(component, FullFields)))

\* a count that does not skip the unpublished components
RECURSIVE categoryStats_countAll(_, _)
categoryStats_countAll(stats, components) ==
    IF components = <<>> THEN stats
    ELSE LET component == Head(components)
             key == component.category
             stat == IF key \in DOMAIN stats THEN stats[key]
                     ELSE [count |-> 0, freeCount |-> 0]
         IN  categoryStats_countAll(
                 MapSet(stats, key,
                        [count |-> stat.count + 1,
                         freeCount |-> IF component.is_free
                                       THEN stat.freeCount + 1
                                       ELSE stat.freeCount]),
                 Tail(components))

\* the loop of handleListCategories over catalog.components
RECURSIVE categoryStats(_, _)
categoryStats(stats, components) ==
    IF components = <<>> THEN stats
    ELSE LET component == Head(components)
             key == component.category
             stat == IF key \in DOMAIN stats THEN stats[key]
                     ELSE [count |-> 0, freeCount |-> 0]
         IN  IF ~component.is_published
             THEN categoryStats(stats, Tail(components))
             ELSE categoryStats(
                     MapSet(stats, key,
                            [count |-> stat.count + 1,
                             freeCount |-> IF component.is_free
                                           THEN stat.freeCount + 1
                                           ELSE stat.freeCount]),
                     Tail(components))

\* one entry of list_categories; stat?.count || 0
categoryEntry(stats, cat) ==
    Pick(cat, {"slug", "name", "icon"})
    @@ [componentCount |-> IF cat.slug \in DOMAIN stats
                           THEN stats[cat.slug].count ELSE 0,
        freeCount |-> IF cat.slug \in DOMAIN stats
                      THEN stats[cat.slug].freeCount ELSE 0,
        subcategories |-> [i \in 1..Len(cat.items) |->
                              Pick(cat.items[i], {"slug", "name"})]]

\* a listing that does not drop the unpublished categories
handleListCategories_allCategories(args) ==
    LET stats == categoryStats(EmptyMap, catalog.components)
        result == [i \in 1..Len(catalog.categories) |->
                      categoryEntry(stats, catalog.categories[i])]
    IN  TextResult(JSON_stringify([categories |-> result]))

\* catalog.categories.filter(cat => cat.is_published).map(...)
handleListCategories(args) ==
    LET stats == categoryStats(EmptyMap, catalog.components)
        published == SelectSeq(catalog.categories, LAMBDA cat : cat.is_published)
        result == [i \in 1..Len(published) |-> categoryEntry(stats, published[i])]
    IN  TextResult(JSON_stringify([categories |-> result]))

\* the document skeleton around ${body}
DocHead == <<"<!DOCTYPE html><html lang=en><head>...</head><body>\n">>
DocTail == <<"\n  <!-- Bootstrap JS --><script ...></script></body></html>">>

\* a validation that stops at the first reference it cannot resolve
findMissing_first(componentIds) ==
    slice(SelectSeq(componentIds, LAMBDA id : getComponent(id) = Undefined), 1)

\* the validation loop: every reference that does not resolve, in input order
findMissing(componentIds) ==
    SelectSeq(componentIds, LAMBDA id : getComponent(id) = Undefined)

\* an assembly that joins the parts with a single line break
assembleBody_oneBreak(componentIds) ==
    LET found == SelectSeq(componentIds, LAMBDA id : getComponent(id) # Undefined)
        parts == [i \in 1..Len(found) |-> getComponent(found[i]).html]
    IN  join(parts, NL)

\* the assembly loop and parts.join('\n\n')
assembleBody(componentIds) ==
    LET found == SelectSeq(componentIds, LAMBDA id : getComponent(id) # Undefined)
        parts == [i \in 1..Len(found) |-> getComponent(found[i]).html]
    IN  join(parts, NL \o NL)

handleAssemblePage(args) ==
    LET componentIds == IF Has(args, "components") THEN args.components ELSE <<>>
        includeAssets == ~(Has(args, "includeAssets") /\ args.includeAssets = FALSE)
        missing == findMissing(componentIds)
        body == assembleBody(componentIds)
    IN  IF ~Has(args, "components") \/ Len(componentIds) = 0
        THEN ErrorResult(JSON_stringify([error |-> <<"No components provided">>]))
        ELSE IF Len(missing) > 0
        THEN ErrorResult(JSON_stringify([error |-> <<"Components not found">>,
                                         missing |-> missing]))
        ELSE TextResult(IF includeAssets THEN DocHead \o body \o DocTail ELSE body)

\* a resolution through getComponent: ids are accepted too
resolveSlugs_byIdOrSlug(slugs) ==
    summaries(SelectSeq([i \in 1..Len(slugs) |-> getComponent(slugs[i])],
                        LAMBDA c : c # Undefined))

\* component.dependencies / component.used_by resolved through componentsBySlug
resolveSlugs(slugs) ==
    summaries(SelectSeq([i \in 1..Len(slugs) |-> MapGet(componentsBySlug, slugs[i])],
                        LAMBDA c : c # Undefined))

\* an absent direction taken as 'dependencies'
handleGetDependencies_defaultDependencies(args) ==
    LET direction == IF Has(args, "direction") /\ args.direction # ""
                     THEN args.direction ELSE "dependencies"
        component == getComponent(args.id)
    IN  IF component = Undefined
        THEN ErrorResult(JSON_stringify(NotFound(args.id)))
        ELSE TextResult(JSON_stringify(
                [component |-> Pick(component, {"id", "slug", "name"})]
                @@ (IF direction \in {"dependencies", "both"}
                    THEN [dependencies |-> resolveSlugs(component.dependencies)]
                    ELSE NoArgs)
                @@ (IF direction \in {"dependents", "both"}
                    THEN [dependents |-> resolveSlugs(component.used_by)]
                    ELSE NoArgs)))

\* handleGetDependencies(args): direction = args.direction || 'both'
handleGetDependencies(args) ==
    LET direction == IF Has(args, "direction") /\ args.direction # ""
                     THEN args.direction ELSE "both"
        component == getComponent(args.id)
    IN  IF component = Undefined
        THEN ErrorResult(JSON_stringify(NotFound(args.id)))
        ELSE TextResult(JSON_stringify(
                [component |-> Pick(component, {"id", "slug", "name"})]
                @@ (IF direction \in {"dependencies", "both"}
                    THEN [dependencies |-> resolveSlugs(component.dependencies)]
                    ELSE NoArgs)
                @@ (IF direction \in {"dependents", "both"}
                    THEN [dependents |-> resolveSlugs(component.used_by)]
                    ELSE NoArgs)))

(***************************************************************************)
(* How a request ends: the handler returns a result, or throws.            *)
(***************************************************************************)
Returned(result) == [outcome |-> "returned", result |-> result]
Thrown(message) == [outcome |-> "thrown", message |-> message]

ToolNames == <<"search_components", "get_component", "list_categories",
               "assemble_page", "get_component_dependencies">>

\* args.query, args.id, args.components read from a request that carries no
\* arguments: the first statement of the handler throws
TypeError == Thrown(<<"TypeError: Cannot read properties of undefined">>)

\* a handler that reads a property of args as its first statement
ReadsArgs(args, result) == IF args = Undefined THEN TypeError ELSE Returned(result)

\* the switch of the CallToolRequestSchema handler; params.arguments is
\* optional, and handleListCategories alone never reads it
CallToolHandler(name, args) ==
    CASE name = "search_components" -> ReadsArgs(args, handleSearchComponents(args))
      [] name = "get_component" -> ReadsArgs(args, handleGetComponent(args))
      [] name = "list_categories" -> Returned(handleListCategories(args))
      [] name = "assemble_page" -> ReadsArgs(args, handleAssemblePage(args))
      [] name = "get_component_dependencies" ->
            ReadsArgs(args, handleGetDependencies(args))
      [] OTHER -> Thrown(<<"Unknown tool: ", name>>)

(***************************************************************************)
(* The resource handlers.                                                  *)
(***************************************************************************)
str_component == <<"c","o","m","p","o","n","e","n","t">>
str_category == <<"c","a","t","e","g","o","r","y">>
str_catalog == <<"c","a","t","a","l","o","g">>
SchemeSep == <<":","/","/">>
Uri(protocol, path) == protocol \o SchemeSep \o path

\* the second element of a destructured array that has only one
undefinedPath == <<"<undefined>">>

ResourceResult(uri, text) ==
    [contents |-> [uri |-> uri, mimeType |-> "application/json", text |-> text]]

listResources ==
    [resources |->
        <<[uri |-> Uri(str_component, str_catalog)]>>
        \o LET published == SelectSeq(catalog.categories,
                                       LAMBDA cat : cat.is_published)
           IN  [i \in 1..Len(published) |->
                   [uri |-> Uri(str_category, published[i].slug),
                    name |-> published[i].name \o <<" Category">>]]]

handleCatalogResource ==
    LET formatted == summaries(SelectSeq(catalog.components,
                                         LAMBDA c : c.is_published))
    IN  Returned(ResourceResult(Uri(str_component, str_catalog),
            JSON_stringify([totalCount |-> Len(formatted),
                            components |-> formatted])))

handleCategoryResource(slug) ==
    LET category == MapGet(categoriesBySlug, slug)
        components == SelectSeq(catalog.components,
                             LAMBDA c : /\ c.is_published
                                        /\ (c.category = slug \/ c.subcategory = slug))
        formatted == summaries(components)
    IN  Returned(ResourceResult(Uri(str_category, slug),
            JSON_stringify(
                [category |-> IF category # Undefined
                              THEN Pick(category, {"slug", "name", "description"})
                              ELSE [null |-> TRUE],
                 count |-> Len(formatted),
                 components |-> formatted])))

\* a component view that answers a miss with an error payload
handleComponentResource_errorPayload(idOrSlug) ==
    LET component == getComponent(idOrSlug)
    IN  IF component = Undefined
        THEN Returned(ResourceResult(Uri(str_component, idOrSlug),
                JSON_stringify(NotFound(idOrSlug))))
        ELSE Returned(ResourceResult(Uri(str_component, idOrSlug),
                JSON_stringify(Pick(component, FullFields))))

handleComponentResource(idOrSlug) ==
    LET component == getComponent(idOrSlug)
    IN  IF component = Undefined
        THEN Thrown(<<"Component not found: ">> \o idOrSlug)
        ELSE Returned(ResourceResult(Uri(str_component, idOrSlug),
                JSON_stringify(Pick(component, FullFields))))

\* the ReadResourceRequestSchema handler
ReadResourceHandler(uri) ==
    LET parts == split(uri, SchemeSep)
        protocol == parts[1]
        path == IF Len(parts) > 1 THEN parts[2] ELSE undefinedPath
    IN  IF protocol = str_component /\ path = str_catalog
        THEN handleCatalogResource
        ELSE IF protocol = str_category THEN handleCategoryResource(path)
        ELSE IF protocol = str_component THEN handleComponentResource(path)
        ELSE Thrown(<<"Unknown resource: ">> \o uri)

(***************************************************************************)
(* The requests the model sends.                                           *)
(***************************************************************************)
Opt(k, values) == {NoArgs} \cup {(k :> v) : v \in values}

SearchArgs ==
    { q @@ t @@ c @@ f @@ g @@ l :
        q \in Opt("query", {<<"H","e","r","o">>, hero}),
        t \in Opt("type", {"section"}),
        c \in Opt("category", {hero}),
        f \in Opt("is_free", {TRUE, FALSE}),
        g \in Opt("is_featured", {TRUE}),
        l \in Opt("limit", {0, 1}) }

\* queries in several cases, one across the single space of the join, the
\* dotless i and its capital; alone, and with the is_free filter
CaseQueries ==
    { <<"H","E","R","O">>, <<"1"," ","T">>, <<"1"," ","t">>, <<"N","a","V">>,
      <<"n","a","v">>, <<DotlessI>>, <<"I">>, <<"i">> }
CaseArgs ==
    { [query |-> q] @@ f : q \in CaseQueries, f \in Opt("is_free", {TRUE}) }

\* limits of two, of more than the default and below zero, and a category
\* given as the empty string
LimitArgs ==
    { [limit |-> n] @@ f : n \in {2, DefaultLimit + 1, -1},
                           f \in Opt("is_free", {FALSE}) }
EmptyCategoryArgs ==
    { [category |-> <<>>] @@ t : t \in Opt("type", {"section"}) }

Refs == {u1, u2, h1, p1, d1, zz}
AssembleRefs == {h1, u2, zz}

GetArgs == {[id |-> r] : r \in Refs}
ListArgs == Opt("type", {"section"})
AssembleArgs ==
    { c @@ i :
        c \in Opt("components", SeqsUpTo(AssembleRefs, MaxRefs)),
        i \in Opt("includeAssets", {TRUE, FALSE})
               \cup {[includeAssets |-> FALSE, layout |-> h1]} }
DependencyArgs ==
    { [id |-> r] @@ d :
        r \in Refs,
        d \in Opt("direction", {"dependencies", "dependents", "both", "up"}) }

ResourceUris ==
    { Uri(str_component, str_catalog), Uri(str_category, sec),
      Uri(str_category, hero), Uri(str_category, zz),
      Uri(str_component, h1), Uri(str_component, u1), Uri(str_component, zz),
      Uri(str_component, h1) \o SchemeSep \o zz,
      Uri(<<"f","i","l","e">>, h1), str_component, str_category }

(***************************************************************************)
(* Actions.  A request arrives (Receive...), the handler registered for it *)
(* runs to its end and sets the response, the response is delivered.  No   *)
(* handler assigns to the catalog or to an index.                          *)
(***************************************************************************)
NoRequest == [kind |-> "none"]
NoResponse == [outcome |-> "none"]

ToolCall(name, args) == [kind |-> "tools/call", name |-> name, arguments |-> args]

\* a call whose params hold a name and no arguments
BareToolCall(name) == [kind |-> "tools/call", name |-> name]

\* const { name, arguments: args } = request.params
argsOf(req) == IF Has(req, "arguments") THEN req.arguments ELSE Undefined

ToolRequests ==
    {ToolCall("search_components", a) : a \in SearchArgs \cup CaseArgs \cup LimitArgs \cup EmptyCategoryArgs}
    \cup {ToolCall("get_component", a) : a \in GetArgs}
    \cup {ToolCall("list_categories", a) : a \in ListArgs}
    \cup {ToolCall("assemble_page", a) : a \in AssembleArgs}
    \cup {ToolCall("get_component_dependencies", a) : a \in DependencyArgs}
    \cup {ToolCall("delete_component", a) : a \in GetArgs}
    \cup {BareToolCall(ToolNames[i]) : i \in 1..Len(ToolNames)}
    \cup {BareToolCall("delete_component")}

ReceiveToolCall ==
    /\ request = NoRequest
    /\ request' \in ToolRequests
    /\ UNCHANGED <<store, response>>

ReceiveListResources ==
    /\ request = NoRequest
    /\ request' = [kind |-> "resources/list"]
    /\ UNCHANGED <<store, response>>

ReceiveReadResource ==
    /\ request = NoRequest
    /\ \E uri \in ResourceUris : request' = [kind |-> "resources/read", uri |-> uri]
    /\ UNCHANGED <<store, response>>

Pending(kind) == request.kind = kind /\ response = NoResponse

\* the CallToolRequestSchema handler, one action for each case of its switch
CallTool(name) ==
    /\ Pending("tools/call")
    /\ request.name = name
    /\ response' = CallToolHandler(request.name, argsOf(request))
    /\ UNCHANGED <<store, request>>

\* a search that filters this.catalog.components in place
SearchComponents_filtersInPlace ==
    /\ Pending("tools/call")
    /\ request.name = "search_components"
    /\ response' = CallToolHandler(request.name, argsOf(request))
    /\ catalog' = [catalog EXCEPT
                      !.components = SelectSeq(@, LAMBDA c : c.is_published)]
    /\ UNCHANGED <<componentsBySlug, componentsById, categoriesBySlug, request>>

SearchComponents == CallTool("search_components")
GetComponent == CallTool("get_component")
ListCategories == CallTool("list_categories")
AssemblePage == CallTool("assemble_page")
GetDependencies == CallTool("get_component_dependencies")

UnknownTool ==
    /\ Pending("tools/call")
    /\ \A i \in 1..Len(ToolNames) : request.name # ToolNames[i]
    /\ response' = CallToolHandler(request.name, argsOf(request))
    /\ UNCHANGED <<store, request>>

ListResources ==
    /\ Pending("resources/list")
    /\ response' = Returned(listResources)
    /\ UNCHANGED <<store, request>>

ReadResource ==
    /\ Pending("resources/read")
    /\ response' = ReadResourceHandler(request.uri)
    /\ UNCHANGED <<store, request>>

\* the result is sent, or the exception is reported, to the client
Deliver ==
    /\ response # NoResponse
    /\ request' = NoRequest
    /\ response' = NoResponse
    /\ UNCHANGED store

Next ==
    \/ ReceiveToolCall
    \/ ReceiveListResources
    \/ ReceiveReadResource
    \/ SearchComponents
    \/ GetComponent
    \/ ListCategories
    \/ AssemblePage
    \/ GetDependencies
    \/ UnknownTool
    \/ ListResources
    \/ ReadResource
    \/ Deliver

Spec == Init /\ [][Next]_vars

(***************************************************************************)
(* Vocabulary of the properties.                                           *)
(***************************************************************************)
Components == catalog.components
Positions == 1..Len(Components)

\* the last request was a call of tool `name` with an arguments object and
\* its handler has answered
Answered(name) ==
    /\ request.kind = "tools/call"
    /\ request.name = name
    /\ Has(request, "arguments")
    /\ response # NoResponse

\* the catalog knows the reference, as an id or as a slug
Resolves(ref) == \E i \in Positions : Components[i].id = ref \/ Components[i].slug = ref

PublishedPositions == {i \in Positions : Components[i].is_published}

\* the summary of a component, field by field
SummaryOf(c) ==
    [id |-> c.id, name |-> c.name, slug |-> c.slug, type |-> c.type,
     category |-> c.category, subcategory |-> c.subcategory,
     description |-> c.description, is_free |-> c.is_free,
     is_featured |-> c.is_featured, tags |-> c.tags]

\* the first n published components of the catalog, in catalog order
RECURSIVE FirstPublished(_, _)
FirstPublished(components, n) ==
    IF n = 0 \/ components = <<>> THEN <<>>
    ELSE IF Head(components).is_published
    THEN <<Head(components)>> \o FirstPublished(Tail(components), n - 1)
    ELSE FirstPublished(Tail(components), n)

Range(seq) == {seq[i] : i \in 1..Len(seq)}

(***************************************************************************)
(* C1.  As claimed: for every component c of the catalog, getComponent     *)
(* called with c.id returns c and called with c.slug returns c.            *)
(***************************************************************************)
C1_EveryComponentRoundTrips ==
    \A i \in Positions :
        /\ getComponent(Components[i].id) = Components[i]
        /\ getComponent(Components[i].slug) = Components[i]

\* C1, amended: getComponent(c.id) returns c for every component c whose id
\* no other component of the catalog has, and getComponent(c.slug) returns c
\* for every c whose slug is neither the slug nor the id of another component
\* (so both hold for every component of a catalog with unique ids, unique
\* slugs and no slug that is another component's id).
C1_UniqueKeysRoundTrip ==
    \A i \in Positions :
        /\ \/ getComponent(Components[i].id) = Components[i]
           \/ \E j \in Positions \ {i} : Components[j].id = Components[i].id
        /\ \/ getComponent(Components[i].slug) = Components[i]
           \/ \E j \in Positions \ {i} :
                 \/ Components[j].slug = Components[i].slug
                 \/ Components[j].id = Components[i].slug

\* get_component has answered a request by slug with the component of that
\* slug, in a catalog of several components whose keys are all different
C1_Witness ==
    /\ Answered("get_component")
    /\ Len(Components) > 20
    /\ \A i, j \in Positions :
          i # j => /\ Components[i].id # Components[j].id
                   /\ Components[i].slug # Components[j].slug
                   /\ Components[i].slug # Components[j].id
    /\ \E i \in Positions :
          /\ request.arguments.id = Components[i].slug
          /\ Components[i].slug # Components[i].id
          /\ response = Returned(TextResult(JSON_stringify(
                            Pick(Components[i], FullFields))))

(***************************************************************************)
(* C2.  search_components called with no filter and no limit returns at    *)
(* most 20 components, all of them published, in catalog order: the first  *)
(* 20 published components of the catalog.                                 *)
(***************************************************************************)
C2_DefaultSearchIsFirstTwentyPublished ==
    (Answered("search_components") /\ request.arguments = NoArgs) =>
        LET payload == response.result.content.json
            expected == FirstPublished(Components, 20)
        IN  /\ response.outcome = "returned"
            /\ ~Has(response.result, "isError")
            /\ Len(payload.components) <= 20
            /\ payload.count = Len(payload.components)
            /\ payload.components = [i \in 1..Len(expected) |-> SummaryOf(expected[i])]
            /\ \A i \in 1..Len(expected) : expected[i].is_published

\* the catalog has more than 20 published components and an unpublished one
\* before the 20th of them; the default search returned exactly 20
C2_Witness ==
    /\ Answered("search_components")
    /\ request.arguments = NoArgs
    /\ Cardinality(PublishedPositions) > 20
    /\ response.result.content.json.count = 20
    /\ \E i \in Positions \ PublishedPositions :
          Cardinality({j \in PublishedPositions : j < i}) < 20

(***************************************************************************)
(* C3.  As claimed: the components returned by search({is_free: true}) are *)
(* a subset of those returned by search({}), both with the default limit,  *)
(* and every one of them has is_free = true.                               *)
(***************************************************************************)
FreeSearch == Answered("search_components") /\ request.arguments = [is_free |-> TRUE]

\* C3 as claimed: search({is_free: true}) is within search({}) and all free
C3_FreeSearchWithinDefaultSearch ==
    FreeSearch =>
        /\ Range(response.result.content.json.components)
              \subseteq Range(handleSearchComponents(NoArgs).content.json.components)
        /\ \A i \in 1..Len(response.result.content.json.components) :
              response.result.content.json.components[i].is_free

\* C3, amended: every component returned by search({is_free: true}) has
\* is_free = true and is a published component of the catalog; the returned
\* set is a subset of the set returned by search({}) when the catalog has at
\* most 20 published components (search({}) is then not cut).
C3_FreeSearchWithinPublished ==
    FreeSearch =>
        LET found == response.result.content.json.components
        IN  /\ \A k \in 1..Len(found) :
                  /\ found[k].is_free
                  /\ \E i \in PublishedPositions :
                        Components[i].is_free /\ found[k] = SummaryOf(Components[i])
            /\ Cardinality(PublishedPositions) <= 20 =>
                  Range(found) \subseteq
                      {SummaryOf(c) : c \in Range(FirstPublished(Components, 20))}

\* search({is_free: true}) returned free components of a catalog that also
\* has a published component that is not free
C3_Witness ==
    /\ FreeSearch
    /\ Len(response.result.content.json.components) > 0
    /\ \E i \in PublishedPositions : ~Components[i].is_free
    /\ Cardinality(PublishedPositions) <= 20

(***************************************************************************)
(* C4.  assemble_page on a non-empty list of references that all resolve:  *)
(* with includeAssets = false the result is the html of the referenced     *)
(* components, one part per reference, in the caller's order, joined by    *)
(* "\n\n"; with includeAssets absent or true the same body stands inside   *)
(* the document skeleton.                                                  *)
(***************************************************************************)
RECURSIVE HtmlInOrder(_)
HtmlInOrder(refs) ==
    IF Len(refs) = 1 THEN getComponent(refs[1]).html
    ELSE getComponent(refs[1]).html \o <<"\n", "\n">> \o HtmlInOrder(Tail(refs))

AssembledAll ==
    /\ Answered("assemble_page")
    /\ Has(request.arguments, "components")
    /\ Len(request.arguments.components) > 0
    /\ \A k \in 1..Len(request.arguments.components) :
          Resolves(request.arguments.components[k])

\* C4: when every reference resolves, the result is the html of the
\* referenced components in the caller's order, one part per reference,
\* joined by two line breaks; bare when includeAssets is false, inside the
\* document skeleton when it is absent or true
C4_AssembleJoinsHtmlInOrder ==
    AssembledAll =>
        LET body == HtmlInOrder(request.arguments.components)
            bare == /\ Has(request.arguments, "includeAssets")
                    /\ request.arguments.includeAssets = FALSE
        IN  /\ response.outcome = "returned"
            /\ ~Has(response.result, "isError")
            /\ bare => response.result.content = body
            /\ ~bare => response.result.content = DocHead \o body \o DocTail

\* two different components assembled without the skeleton, the second
\* reference first in the catalog: the html comes in the caller's order
C4_Witness ==
    /\ AssembledAll
    /\ Len(request.arguments.components) = 2
    /\ Has(request.arguments, "includeAssets")
    /\ ~request.arguments.includeAssets
    /\ Len(Components) = 2
    /\ Components[1].slug = request.arguments.components[2]
    /\ Components[2].slug = request.arguments.components[1]
    /\ Components[1].html # Components[2].html
    /\ response.result.content =
          Components[2].html \o <<"\n", "\n">> \o Components[1].html

(***************************************************************************)
(* C5.  assemble_page on a list with a reference that does not resolve     *)
(* returns an error result whose `missing` is the unresolved references of *)
(* the input, all of them, in input order, and no assembled html.          *)
(***************************************************************************)
AssembledWithMissing ==
    /\ Answered("assemble_page")
    /\ Has(request.arguments, "components")
    /\ \E k \in 1..Len(request.arguments.components) :
          ~Resolves(request.arguments.components[k])

\* C5: when a reference does not resolve, the result is an error whose
\* payload holds `error` and `missing` only, `missing` being the unresolved
\* references of the input in input order
C5_AssembleReportsAllMissing ==
    AssembledWithMissing =>
        /\ response.outcome = "returned"
        /\ Has(response.result, "isError")
        /\ response.result.isError
        /\ DOMAIN response.result.content = {"json"}
        /\ DOMAIN response.result.content.json = {"error", "missing"}
        /\ response.result.content.json.missing =
              SelectSeq(request.arguments.components, LAMBDA ref : ~Resolves(ref))

\* one reference resolves, two do not (or the same one twice): both are listed
C5_Witness ==
    /\ AssembledWithMissing
    /\ Len(response.result.content.json.missing) = 2
    /\ Len(Components) > 0

(***************************************************************************)
(* C6.  get_component_dependencies with direction "dependencies" returns,  *)
(* as summaries and in the order of c.dependencies, exactly the entries of *)
(* c.dependencies that are the slug of a component of the catalog; an      *)
(* entry that is nobody's slug is left out and the call is no error.  The  *)
(* same for c.used_by under "dependents".                                  *)
(***************************************************************************)
IsSlug(s) == \E i \in Positions : Components[i].slug = s

\* the component the slug index holds for s: the last one of the catalog
LastWithSlug(s) ==
    Components[CHOOSE i \in Positions :
                  /\ Components[i].slug = s
                  /\ \A j \in Positions : j > i => Components[j].slug # s]

ResolvedSummaries(slugs) ==
    LET kept == SelectSeq(slugs, IsSlug)
    IN  [k \in 1..Len(kept) |-> SummaryOf(LastWithSlug(kept[k]))]

DependenciesAnswered ==
    /\ Answered("get_component_dependencies")
    /\ Resolves(request.arguments.id)

\* C6: the `dependencies` (`dependents`) list is the summaries of the entries
\* of c.dependencies (c.used_by) that are the slug of a catalog component,
\* in list order; the other entries are left out and the call succeeds
C6_DependenciesResolveOrAreDropped ==
    DependenciesAnswered =>
        LET c == getComponent(request.arguments.id)
            payload == response.result.content.json
            direction == IF Has(request.arguments, "direction")
                         THEN request.arguments.direction ELSE "both"
        IN  /\ response.outcome = "returned"
            /\ ~Has(response.result, "isError")
            /\ direction \in {"dependencies", "both"} =>
                  /\ Has(payload, "dependencies")
                  /\ payload.dependencies = ResolvedSummaries(c.dependencies)
                  /\ \A k \in 1..Len(payload.dependencies) :
                        \E i \in Positions :
                            payload.dependencies[k] = SummaryOf(Components[i])
            /\ direction \in {"dependents", "both"} =>
                  /\ Has(payload, "dependents")
                  /\ payload.dependents = ResolvedSummaries(c.used_by)
                  /\ \A k \in 1..Len(payload.dependents) :
                        \E i \in Positions :
                            payload.dependents[k] = SummaryOf(Components[i])

\* the dependencies of a component with three entries were asked for: one
\* entry resolved, one is nobody's slug and one is an id and no slug
C6_Witness ==
    /\ DependenciesAnswered
    /\ Has(request.arguments, "direction")
    /\ request.arguments.direction = "dependencies"
    /\ Len(getComponent(request.arguments.id).dependencies) = 3
    /\ Len(response.result.content.json.dependencies) = 1
    /\ \E k \in 1..3 :
          /\ Resolves(getComponent(request.arguments.id).dependencies[k])
          /\ ~IsSlug(getComponent(request.arguments.id).dependencies[k])

(***************************************************************************)
(* C7.  In every entry of list_categories the total count is the number of *)
(* published components whose `category` is the entry's slug (a matching   *)
(* subcategory does not count, nor an unpublished component) and the free  *)
(* count is the number of those that have is_free = true.                  *)
(***************************************************************************)
InCategory(slug) == {i \in PublishedPositions : Components[i].category = slug}

\* C7: every entry's componentCount and freeCount are the numbers of
\* published components, and of free published components, whose category
\* is the entry's slug
C7_CategoryCountsArePublishedMembers ==
    Answered("list_categories") =>
        LET entries == response.result.content.json.categories
        IN  \A k \in 1..Len(entries) :
                /\ entries[k].componentCount = Cardinality(InCategory(entries[k].slug))
                /\ entries[k].freeCount =
                      Cardinality({i \in InCategory(entries[k].slug) :
                                      Components[i].is_free})

\* an entry counts several components, not all free, while the catalog also
\* has an unpublished component of that category and a published one that
\* has the slug only as its subcategory
C7_Witness ==
    /\ Answered("list_categories")
    /\ \E k \in 1..Len(response.result.content.json.categories) :
          LET e == response.result.content.json.categories[k]
          IN  /\ e.componentCount > e.freeCount
              /\ e.freeCount > 0
              /\ \E i \in Positions \ PublishedPositions :
                    Components[i].category = e.slug
              /\ \E i \in PublishedPositions :
                    /\ Components[i].subcategory = e.slug
                    /\ Components[i].category # e.slug

(***************************************************************************)
(* C8.  As claimed: get_component on a hit returns the full record, with   *)
(* all of the component's fields; on a miss it returns an error result     *)
(* that carries the identifier asked for, and no component data.           *)
(***************************************************************************)
GetMissIsError ==
    /\ response.outcome = "returned"
    /\ Has(response.result, "isError")
    /\ response.result.isError
    /\ DOMAIN response.result.content.json = {"error"}
    /\ LET message == response.result.content.json.error
           id == request.arguments.id
       IN  SubSeq(message, Len(message) - Len(id) + 1, Len(message)) = id

GetHitReturns(fields) ==
    LET c == getComponent(request.arguments.id)
        payload == response.result.content.json
    IN  /\ response.outcome = "returned"
        /\ ~Has(response.result, "isError")
        /\ DOMAIN payload = fields
        /\ \A f \in fields : payload[f] = c[f]

\* C8 as claimed: a hit returns every field of ComponentData
C8_GetComponentReturnsAllFields ==
    Answered("get_component") =>
        IF Resolves(request.arguments.id)
        THEN GetHitReturns(ComponentFields)
        ELSE GetMissIsError

C8_ReturnedFields ==
    {"id", "name", "slug", "type", "category", "subcategory", "description",
     "is_free", "is_featured", "tags", "keywords", "use_cases", "includes",
     "content_hints", "dependencies", "used_by", "html"}

\* C8, amended: on a hit get_component returns seventeen fields of the
\* component (C8_ReturnedFields), html, dependencies, used_by and
\* content_hints among them, and not similar_to, is_published, is_new,
\* created_at, updated_at; on a miss it returns an error result that carries
\* the identifier asked for, and no component data.
C8_GetComponentReturnsSeventeenFields ==
    Answered("get_component") =>
        IF Resolves(request.arguments.id)
        THEN /\ GetHitReturns(C8_ReturnedFields)
             /\ ComponentFields \ C8_ReturnedFields =
                   {"similar_to", "is_published", "is_new", "created_at", "updated_at"}
        ELSE GetMissIsError

\* get_component has answered a hit with a record that holds the markup
C8_Witness ==
    /\ Answered("get_component")
    /\ Resolves(request.arguments.id)
    /\ Len(response.result.content.json.html) > 0
    /\ Len(response.result.content.json.dependencies) > 0
    /\ Len(Components) > 1

(***************************************************************************)
(* C9.  As claimed: no request whose only fault is an identifier that does *)
(* not resolve (or an empty components list) ends in a thrown exception,   *)
(* in the tool operations and in the resource views alike: it ends in a    *)
(* delivered structured error payload.                                     *)
(***************************************************************************)
UriParts(uri) == split(uri, SchemeSep)

ToolFault ==
    /\ request.kind = "tools/call"
    /\ Has(request, "arguments")
    /\ \/ /\ request.name \in {"get_component", "get_component_dependencies"}
          /\ ~Resolves(request.arguments.id)
       \/ /\ request.name = "assemble_page"
          /\ \/ ~Has(request.arguments, "components")
             \/ \E k \in 1..Len(request.arguments.components) :
                   ~Resolves(request.arguments.components[k])
             \/ request.arguments.components = <<>>

\* a read of component://<ref> where nothing is wrong but <ref>
ViewFault ==
    /\ request.kind = "resources/read"
    /\ Len(UriParts(request.uri)) = 2
    /\ UriParts(request.uri)[1] = str_component
    /\ UriParts(request.uri)[2] # str_catalog
    /\ ~Resolves(UriParts(request.uri)[2])

\* C9 as claimed: a request whose only fault is an unresolved identifier
\* (or an empty components list) ends in a returned result
C9_UnresolvedIdentifierNeverThrows ==
    (response # NoResponse /\ (ToolFault \/ ViewFault)) =>
        response.outcome = "returned"

\* C9, amended: no tool call whose only fault is an identifier that does
\* not resolve (or an empty or absent components list) ends in a thrown
\* exception: it ends in a delivered result marked isError that carries a
\* structured error payload.  A tool call throws when it names an unknown
\* tool, or when it carries no arguments object and names a tool other than
\* list_categories, and in no other case.  Of the resource reads, the
\* catalog and category views never throw; a read of component://<ref>
\* throws when <ref> does not resolve, and a read whose scheme is neither
\* component nor category throws.
C9_OnlyToolFaultsAreRecovered ==
    response # NoResponse =>
        /\ ToolFault =>
              /\ response.outcome = "returned"
              /\ Has(response.result, "isError")
              /\ response.result.isError
              /\ Has(response.result.content.json, "error")
        /\ request.kind = "tools/call" =>
              (response.outcome = "thrown" <=>
                  \/ \A i \in 1..Len(ToolNames) : request.name # ToolNames[i]
                  \/ /\ ~Has(request, "arguments")
                     /\ request.name # "list_categories")
        /\ request.kind = "resources/list" => response.outcome = "returned"
        /\ request.kind = "resources/read" =>
              LET protocol == UriParts(request.uri)[1]
                  known == Len(UriParts(request.uri)) > 1
                  path == UriParts(request.uri)[IF known THEN 2 ELSE 1]
              IN  response.outcome = "thrown" <=>
                      \/ protocol \notin {str_component, str_category}
                      \/ /\ protocol = str_component
                         /\ ~(known /\ path = str_catalog)
                         /\ ~(known /\ Resolves(path))

\* a tool call with an unknown identifier has been answered with an error
\* payload by a server whose catalog is not empty
C9_Witness ==
    /\ response # NoResponse
    /\ ToolFault
    /\ request.name = "get_component_dependencies"
    /\ Len(Components) > 0
    /\ response.result.isError

(***************************************************************************)
(* C10.  After construction no operation changes the catalog or an index:  *)
(* every step leaves the four of them as they are, the indexes stay those  *)
(* indexData built from the catalog, and so the answer to a request, after *)
(* any requests before it, is the answer of the handler to its arguments   *)
(* on the store as constructed.                                            *)
(***************************************************************************)
AnswerOf(req) ==
    CASE req.kind = "tools/call" ->
            CallToolHandler(req.name,
                            IF Has(req, "arguments") THEN req.arguments
                            ELSE Undefined)
      [] req.kind = "resources/list" -> Returned(listResources)
      [] req.kind = "resources/read" -> ReadResourceHandler(req.uri)

StoreAsConstructed ==
    LET built == indexData(catalog)
    IN  /\ componentsBySlug = built.componentsBySlug
        /\ componentsById = built.componentsById
        /\ categoriesBySlug = built.categoriesBySlug

Categories == catalog.categories
PublishedCategoryPositions ==
    {i \in 1..Len(Categories) : Categories[i].is_published}

\* the place of the i-th category among the published ones
RankOf(i) == Cardinality({j \in PublishedCategoryPositions : j <= i})

ListedCategories ==
    /\ request.kind = "tools/call"
    /\ request.name = "list_categories"
    /\ response # NoResponse

\* C11: the entries of list_categories are the published categories of the
\* catalog, one entry each and in catalog order; a published category without
\* published components has both counts 0, and an unpublished category has
\* no entry whatever the number of published components of its slug
C11_OneEntryPerPublishedCategory ==
    ListedCategories =>
        /\ response.outcome = "returned"
        /\ LET entries == response.result.content.json.categories
           IN  /\ Len(entries) = Cardinality(PublishedCategoryPositions)
               /\ \A i \in PublishedCategoryPositions :
                     /\ entries[RankOf(i)].slug = Categories[i].slug
                     /\ entries[RankOf(i)].name = Categories[i].name
                     /\ InCategory(Categories[i].slug) = {} =>
                           /\ entries[RankOf(i)].componentCount = 0
                           /\ entries[RankOf(i)].freeCount = 0
               /\ \A i \in (1..Len(Categories)) \ PublishedCategoryPositions :
                     (\A j \in PublishedCategoryPositions :
                          Categories[j].slug # Categories[i].slug)
                     => \A k \in 1..Len(entries) :
                           entries[k].slug # Categories[i].slug

\* the listing of a catalog whose first category is unpublished and is the
\* category of a published component, and that has a published category
\* without any published component, listed with count 0
C11_Witness ==
    /\ ListedCategories
    /\ \E i \in (1..Len(Categories)) \ PublishedCategoryPositions :
          /\ InCategory(Categories[i].slug) # {}
          /\ \E j \in PublishedCategoryPositions : j > i
    /\ \E i \in PublishedCategoryPositions :
          /\ InCategory(Categories[i].slug) = {}
          /\ response.result.content.json.categories[RankOf(i)].componentCount = 0

(***************************************************************************)
(* C12.  As claimed: for every query X, the searches with X, with X in     *)
(* upper case and with X in lower case return the same result, and a       *)
(* component matches when the lower-cased X is a substring of the          *)
(* lower-cased join, with single spaces, of its name, slug, description,   *)
(* category, subcategory, tags, keywords and use_cases.                    *)
(***************************************************************************)
\* String.prototype.toUpperCase on the characters of the model: the capital
\* of the dotless i is I
toUpperCase(s) ==
    [i \in 1..Len(s) |->
        IF \E k \in 1..26 : Lower[k] = s[i]
        THEN Upper[CHOOSE k \in 1..26 : Lower[k] = s[i]]
        ELSE IF s[i] = DotlessI THEN "I"
        ELSE s[i]]

\* a string in lower case: each capital letter replaced by its small letter
SmallOf(ch) == IF \E k \in 1..26 : Upper[k] = ch
               THEN Lower[CHOOSE k \in 1..26 : Upper[k] = ch] ELSE ch
LowerCased(s) == [i \in 1..Len(s) |-> SmallOf(s[i])]

\* the k-th smallest element of a set of positions
Nth(S, k) == CHOOSE i \in S : Cardinality({j \in S : j <= i}) = k

Smaller(a, b) == IF a < b THEN a ELSE b

\* the fields a query is looked for in, joined with single spaces, in lower case
MatchText(c) ==
    LowerCased(join(<<c.name, c.slug, c.description, c.category, c.subcategory>>
                     \o c.tags \o c.keywords \o c.use_cases, <<" ">>))

\* the published components that contain the query, whatever its case
Containing(X) ==
    {i \in PublishedPositions : includes(MatchText(Components[i]), LowerCased(X))}

QuerySearch ==
    /\ Answered("search_components")
    /\ Has(request.arguments, "query")
    /\ request.arguments.query # <<>>

\* the answer to the request with its query replaced by q
AnswerWithQuery(q) == handleSearchComponents(("query" :> q) @@ request.arguments)

\* the answer to a request with a query and nothing else is made of the
\* first 20 published components that contain the query
MatchesAreContainments ==
    LET X == request.arguments.query
        found == response.result.content.json.components
    IN  /\ \A k \in 1..Len(found) :
              \E i \in Containing(X) : found[k] = SummaryOf(Components[i])
        /\ DOMAIN request.arguments = {"query"} =>
              /\ Len(found) = Smaller(Cardinality(Containing(X)), 20)
              /\ \A k \in 1..Len(found) :
                    found[k] = SummaryOf(Components[Nth(Containing(X), k)])

\* C12 as claimed: a search with query X, with X upper-cased and with X
\* lower-cased return the same result for every X, and the matches are the
\* components whose lower-cased joined fields contain the lower-cased X
C12_EveryQueryIgnoresCase ==
    QuerySearch =>
        /\ response.result = AnswerWithQuery(toUpperCase(request.arguments.query))
        /\ response.result = AnswerWithQuery(LowerCased(request.arguments.query))
        /\ MatchesAreContainments

\* C12, amended: a search with query X and the search with X lower-cased
\* return the same result; the search with X upper-cased returns the same
\* result too when lower-casing the upper-cased X gives the lower-cased X,
\* as it does for every X of ASCII characters; the matches are the published
\* components whose lower-cased joined fields contain the lower-cased X
C12_RoundTrippingQueryIgnoresCase ==
    QuerySearch =>
        LET X == request.arguments.query
        IN  /\ response.result = AnswerWithQuery(LowerCased(X))
            /\ LowerCased(toUpperCase(X)) = LowerCased(X) =>
                  response.result = AnswerWithQuery(toUpperCase(X))
            /\ MatchesAreContainments

\* a query in mixed case, different from both its upper-cased and lower-cased
\* forms, found a component that has the word in its keywords or use cases
\* only, in another case, and left out another published component
C12_Witness ==
    /\ QuerySearch
    /\ request.arguments.query # toUpperCase(request.arguments.query)
    /\ request.arguments.query # LowerCased(request.arguments.query)
    /\ \E i \in Containing(request.arguments.query) :
          /\ ~includes(join(<<Components[i].name, Components[i].slug,
                              Components[i].description, Components[i].category,
                              Components[i].subcategory>>
                            \o Components[i].tags, <<" ">>),
                       LowerCased(request.arguments.query))
          /\ \E k \in 1..Len(response.result.content.json.components) :
                response.result.content.json.components[k] = SummaryOf(Components[i])
    /\ PublishedPositions \ Containing(request.arguments.query) # {}

(***************************************************************************)
(* C13.  As claimed: for every combination of present and absent filters   *)
(* search returns the published components that satisfy every present      *)
(* filter (type, category or subcategory, is_free, query), in catalog      *)
(* order, cut to the first `limit` when limit > 0 and to the first 20 when *)
(* no limit is given, and count is the length of what is returned.         *)
(***************************************************************************)
SearchAnswered == Answered("search_components")

\* the positions of the published components that satisfy the filters, a
\* string filter being one of those in `present`
Satisfying(args, present) ==
    {i \in PublishedPositions :
        /\ "type" \in present => Components[i].type = args.type
        /\ "category" \in present =>
              \/ Components[i].category = args.category
              \/ Components[i].subcategory = args.category
        /\ Has(args, "is_free") => Components[i].is_free = args.is_free
        /\ "query" \in present =>
              includes(MatchText(Components[i]), LowerCased(args.query))}

\* the answer is the start of the satisfying components in catalog order,
\* as long as the limit says
AnswersWith(M) ==
    LET payload == response.result.content.json
        found == payload.components
        args == request.arguments
    IN  /\ response.outcome = "returned"
        /\ ~Has(response.result, "isError")
        /\ payload.count = Len(found)
        /\ Len(found) <= Cardinality(M)
        /\ \A k \in 1..Len(found) : found[k] = SummaryOf(Components[Nth(M, k)])
        /\ (Has(args, "limit") /\ args.limit > 0) =>
              Len(found) = Smaller(args.limit, Cardinality(M))
        /\ ~Has(args, "limit") => Len(found) = Smaller(20, Cardinality(M))

\* the string filters given, and those given with a non-empty value
GivenFilters(args) == DOMAIN args \cap {"type", "category", "query"}
NonEmptyFilters(args) ==
    {k \in GivenFilters(args) : IF k = "type" THEN args[k] # "" ELSE args[k] # <<>>}

C13_LimitWitness ==
    /\ SearchAnswered
    /\ Has(request.arguments, "limit")
    /\ request.arguments.limit > 20
    /\ Len(response.result.content.json.components) = request.arguments.limit
    /\ Cardinality(PublishedPositions) > request.arguments.limit

(***************************************************************************)
(* C14.  When search_components is given is_featured, every component it   *)
(* returns has is_featured equal to the given value.  searchComponents has *)
(* the step, but handleSearchComponents does not hand args.is_featured on  *)
(* to it.                                                                  *)
(***************************************************************************)
FeaturedSearch ==
    /\ Answered("search_components")
    /\ Has(request.arguments, "is_featured")

\* C14: every component returned by a search that was given is_featured has
\* is_featured equal to the given value
C14_FeaturedFilterNarrows ==
    FeaturedSearch =>
        \A k \in 1..Len(response.result.content.json.components) :
            response.result.content.json.components[k].is_featured
                = request.arguments.is_featured

\* what the code does with is_featured: the answer is the answer to the
\* same request without it
C14_FeaturedFilterIsDropped ==
    FeaturedSearch =>
        response.result =
            handleSearchComponents(Pick(request.arguments,
                                        DOMAIN request.arguments \ {"is_featured"}))

\* a search for featured components returned one that is not featured
C14_Witness ==
    /\ FeaturedSearch
    /\ request.arguments.is_featured
    /\ \E k \in 1..Len(response.result.content.json.components) :
          ~response.result.content.json.components[k].is_featured

(***************************************************************************)
(* C15.  A successful answer of get_component_dependencies holds the id,   *)
(* slug and name of the component asked for; it holds a `dependencies`     *)
(* list exactly when direction is "dependencies" or "both", a `dependents` *)
(* list exactly when direction is "dependents" or "both", and a request    *)
(* without direction is answered as one with direction "both".             *)
(***************************************************************************)
DependenciesSucceeded ==
    /\ Answered("get_component_dependencies")
    /\ response.outcome = "returned"
    /\ ~Has(response.result, "isError")

\* the direction asked for, "absent" when the request has none
AskedDirection ==
    IF Has(request.arguments, "direction") THEN request.arguments.direction
    ELSE "absent"

====
